---- MODULE Spec2Model ----
(***************************************************************************)
(* The sounddevice audio backend of psychopy                               *)
(* (psychopy/sound/backend_sounddevice.py): the stream registry            *)
(* _StreamsDict, the mixing stream _SoundStream and the playable           *)
(* SoundDeviceSound.                                                       *)
(*                                                                         *)
(* Numbers are the program's numbers.  Python's None is kept apart from    *)
(* every number by the value None.  Strings (the stream labels) are        *)
(* sequences of one-character strings, so that formatting a label and      *)
(* matching it against a regular expression are computed as Python does.   *)
(* Times (t, secs) are counted in ticks of 1/TicksPerSec second; every     *)
(* sample rate used divides TicksPerSec and is a power of two, so that the *)
(* float sums of the program are exact and equal to the tick sums.         *)
(*                                                                         *)
(* The dict is a sequence of its entries in the order keys() yields them,  *)
(* taken to be the order of insertion.  _SoundBase.setSound is not among   *)
(* the sources: it is taken to hand the value to the _setSndFrom... method *)
(* of its type, as the docstring of setSound describes.  The program is    *)
(* Python 2 (self.keys()[0], range(5).pop(0)).                             *)
(***************************************************************************)
EXTENDS Integers, Sequences, FiniteSets, TLC

VARIABLES
    platform,   \* sys.platform: "win32" (one portaudio stream) or "other"
    streams,    \* the module-level _StreamsDict: <<[label, stream]>> in iteration order
    objs,       \* the _SoundStream objects ever created, by identity 1..Len(objs)
    snds,       \* the SoundDeviceSound objects of the client script
    cbPos,      \* per stream: 0 = no callback running, i > 0 = list iterator at index i-1
    lastCall,   \* the last call that resolved a stream: [op, snd, raised, again]
    returned,   \* history: the <<label, stream>> pairs getStream has returned so far
    mark,       \* history: per sound, a pause()/stop() not yet followed by another
                \* client call on that sound, the cursor when it returned, and whether
                \* the driver has called the callback of the sound's stream since
    out,        \* the last callback invocation that ran as a whole: its stream, the
                \* output buffer it left, how it ended, and (history) the list at
                \* its entry, the sounds it pulled and the sum of their blocks
    gl,         \* the stereo window of the script and its GL context: the class of
                \* the window, the framebuffer bound for drawing, what each
                \* framebuffer holds, the frame being drawn, the last call
    pc          \* where the two threads stand when their calls are taken statement
                \* by statement: the next line of the client's pause() or stop(), the
                \* next line of the callback's handling of a short block, and
                \* (history) the state when that handling began

vars == <<platform, streams, objs, snds, cbPos, lastCall, returned, mark, out, gl, pc>>

(***************************************************************************)
(* Bounds of the model.                                                    *)
(***************************************************************************)
MaxStreams == 2        \* streams created in one run
NSounds == 2           \* sound objects of the script
RegSounds == 1         \* sound objects of the script that only resolves streams
MaxActive == 2         \* entries of one stream's list of playing sounds
MaxT == 12             \* blocks are pulled from a sound while its cursor is below MaxT ticks
MaxEOS == 2            \* ... and while it has met the end of its stream fewer than MaxEOS times
MaxPlays == 3          \* entries of the list when one sound is played again and again
MaxFrames == 3         \* frames the script draws on a stereo window
FileFrames == 8        \* frames of every sound file
ArrayRows == FileFrames \* rows of every array handed to setSound: as many as a file has frames

TicksPerSec == 2 * 8
None == 0 - 1000001    \* Python's None

Sounds == 1..NSounds

\* values the client passes; sound files are stereo, tones and arrays have no
\* channel count of their own
SampleRates == {8, 16}
ChannelCounts == {2}
RegBlockSizes == {12, 128}
PlaySampleRates == {8}
PlayBlockSizes == {2}
LoopCounts == {0 - 1, 0, 2}
HalfSec == TicksPerSec \div 2
Wild == 0 - 1

\* info.duration of a sound file, in ticks
FileTicks(snd) == (FileFrames * TicksPerSec) \div snd.sampleRate

(***************************************************************************)
(* str.format, str.replace and re.match                                    *)
(***************************************************************************)
Digit == <<"0", "1", "2", "3", "4", "5", "6", "7", "8", "9">>

IsDigit(c) == \E i \in 1..10 : Digit[i] = c

RECURSIVE NatStr(_)
NatStr(n) ==
    IF n < 10 THEN <<Digit[n + 1]>>
    ELSE NatStr(n \div 10) \o <<Digit[(n % 10) + 1]>>

\* "{}".format(v) for an int or None
Format(v) ==
    IF v = None THEN <<"N", "o", "n", "e">>
    ELSE IF v < 0 THEN <<"-">> \o NatStr(0 - v)
    ELSE NatStr(v)

getStreamLabel(sampleRate, channels, blockSize) ==
    Format(sampleRate) \o <<"_">> \o Format(channels) \o <<"_">> \o Format(blockSize)

\* the regex fragment that replaces "-1"
AnyInt == "[-+]?(\\d+)"

\* label.replace("-1", AnyInt): leftmost non-overlapping occurrences
RECURSIVE ReplaceWild(_)
ReplaceWild(s) ==
    IF Len(s) = 0 THEN <<>>
    ELSE IF Len(s) >= 2 /\ s[1] = "-" /\ s[2] = "1"
         THEN <<AnyInt>> \o ReplaceWild(SubSeq(s, 3, Len(s)))
         ELSE <<s[1]>> \o ReplaceWild(Tail(s))

\* re.compile(p).match(s): p matches at the start of s (s may go on after it)
RECURSIVE ReMatch(_, _)
ReMatch(p, s) ==
    IF Len(p) = 0 THEN TRUE
    ELSE IF p[1] = AnyInt
         THEN \E sign \in 0..1 :
                 /\ sign = 1 => (Len(s) > 0 /\ s[1] \in {"-", "+"})
                 /\ LET r == IF sign = 1 THEN Tail(s) ELSE s
                    IN  \E n \in 1..Len(r) :
                           /\ \A i \in 1..n : IsDigit(r[i])
                           /\ ReMatch(Tail(p), SubSeq(r, n + 1, Len(r)))
         ELSE Len(s) > 0 /\ s[1] = p[1] /\ ReMatch(Tail(p), Tail(s))

(***************************************************************************)
(* The dict: keys in iteration order                                       *)
(***************************************************************************)
Keys(reg) == {reg[i].label : i \in 1..Len(reg)}

HasKey(reg, label) == \E i \in 1..Len(reg) : reg[i].label = label

Lookup(reg, label) == reg[CHOOSE i \in 1..Len(reg) : reg[i].label = label].stream

\* self[label] = stream
DictSet(reg, label, stream) ==
    IF HasKey(reg, label)
    THEN [i \in 1..Len(reg) |->
             IF reg[i].label = label THEN [label |-> label, stream |-> stream] ELSE reg[i]]
    ELSE Append(reg, [label |-> label, stream |-> stream])

\* seeded fault: the stream is opened with one channel whatever was asked
NewStream_Mono(sampleRate, channels, blockSize) ==
    [sampleRate |-> sampleRate, channels |-> 1, blockSize |-> blockSize,
     sounds |-> <<>>]

\* _SoundStream.__init__
NewStream(sampleRate, channels, blockSize) ==
    [sampleRate |-> sampleRate, channels |-> channels, blockSize |-> blockSize,
     sounds |-> <<>>]

(***************************************************************************)
(* _StreamsDict.getStream and getSimilar.  Each yields what the call       *)
(* returns and the dict and the stream objects after it: raised is the     *)
(* class of the exception raised ("" for none), found = FALSE with no      *)
(* exception is the return value None, gs is the <<label, stream>> pair a  *)
(* getStream inside the call returned, if any.                             *)
(***************************************************************************)
SoundFormatError == "SoundFormatError"

Result(raised, found, label, stream, reg, ob, gs) ==
    [raised |-> raised, found |-> found, label |-> label, stream |-> stream,
     reg |-> reg, ob |-> ob, gs |-> gs]

\* seeded fault: the lookup of an existing stream is lost
LabelKnown_Never(reg, label) == FALSE

\* label in self.keys()
LabelKnown(reg, label) == HasKey(reg, label)

\* seeded fault: the platform check is lost
SingleStreamOnly_Off(reg) == FALSE

\* seeded fault: the platform check lets a second stream in
SingleStreamOnly_Two(reg) == platform = "win32" /\ Len(reg) > 1

\* sys.platform == 'win32' and len(self)
SingleStreamOnly(reg) == platform = "win32" /\ Len(reg) > 0

getStream(reg, ob, sampleRate, channels, blockSize) ==
    LET label == getStreamLabel(sampleRate, channels, blockSize) IN
    IF LabelKnown(reg, label)
    THEN Result("", TRUE, label, Lookup(reg, label), reg, ob,
                {<<label, Lookup(reg, label)>>})
    ELSE IF SingleStreamOnly(reg)
    THEN Result(SoundFormatError, FALSE, <<>>, 0, reg, ob, {})
    ELSE LET id == Len(ob) + 1 IN
         Result("", TRUE, label, id, DictSet(reg, label, id),
                Append(ob, NewStream(sampleRate, channels, blockSize)),
                {<<label, id>>})

\* the positions of the keys the compiled pattern matches
SimilMatches(reg, simil) == {i \in 1..Len(reg) : ReMatch(simil, reg[i].label)}

\* values given in each place
AllGiven(sampleRate, channels, blockSize) ==
    /\ sampleRate \notin {None, 0 - 1, 0}
    /\ channels \notin {None, 0 - 1}
    /\ blockSize \notin {None, 0 - 1}

getSimilar(reg, ob, sampleRate, channels, blockSize) ==
    LET label == getStreamLabel(sampleRate, channels, blockSize)
        simil == ReplaceWild(label)
        hits  == SimilMatches(reg, simil)
    IN  IF hits # {}
        THEN LET i == CHOOSE j \in hits : \A k \in hits : j <= k
             IN  Result("", TRUE, reg[i].label, reg[i].stream, reg, ob, {})
        ELSE IF AllGiven(sampleRate, channels, blockSize)
        THEN getStream(reg, ob, sampleRate, channels, blockSize)
        ELSE Result("", FALSE, <<>>, 0, reg, ob, {})

(***************************************************************************)
(* SoundDeviceSound: construction and setSound                             *)
(***************************************************************************)
NOT_STARTED == "NOT_STARTED"
PLAYING == "PLAYING"
PAUSED == "PAUSED"
STOPPED == "STOPPED"
FINISHED == "FINISHED"

\* a sound object the script has not constructed yet
NoSound ==
    [made |-> FALSE, sourceType |-> "unknown", sampleRate |-> 0, channels |-> None,
     blockSize |-> 0, streamLabel |-> <<>>, secs |-> 0, t |-> 0,
     loops |-> 0, loopsFinished |-> 0, status |-> NOT_STARTED,
     stereo |-> 0 - 1, preBuffer |-> 0 - 1, startTime |-> 0, stopTime |-> 0 - TicksPerSec,
     fileOpen |-> FALSE, filePos |-> 0, nSamples |-> 0]

\* __init__ up to the call of setSound
InitFields(sampleRate, blockSize, loops, secs) ==
    [made |-> TRUE, sourceType |-> "unknown", sampleRate |-> sampleRate,
     channels |-> None, blockSize |-> blockSize, streamLabel |-> <<>>,
     secs |-> secs, t |-> 0, loops |-> loops, loopsFinished |-> 0,
     status |-> NOT_STARTED,
     stereo |-> 0 - 1, preBuffer |-> 0 - 1, startTime |-> 0, stopTime |-> 0 - TicksPerSec,
     fileOpen |-> FALSE, filePos |-> 0, nSamples |-> 0]

\* the keyword arguments stereo, preBuffer, startTime and stopTime of __init__
WithFileArgs(init, stereo, preBuffer, startTime, stopTime) ==
    [init EXCEPT !.stereo = stereo, !.preBuffer = preBuffer,
                 !.startTime = startTime, !.stopTime = stopTime]

\* int(round(t * self.sampleRate)) for a time t in ticks
FrameAt(snd, t) == (t * snd.sampleRate) \div TicksPerSec

\* seek(t): the open sound file is moved along with the cursor
seek(snd, t) ==
    [snd EXCEPT !.t = t, !.filePos = IF snd.fileOpen THEN FrameAt(snd, t) ELSE @]

_setSndFromFreq(snd, secs) == [snd EXCEPT !.sourceType = "freq", !.secs = secs, !.t = 0]

\* sndFile.read(frames): the frames it yields; a negative count, or one beyond the
\* end of the file, yields the frames that are left
ReadCount(snd, frames) ==
    IF frames < 0 \/ frames > FileFrames - snd.filePos
    THEN FileFrames - snd.filePos
    ELSE frames

\* thisArray.shape[0] is kept and the sound is set to run from the start
_setSndFromArray(snd, rows) == seek([snd EXCEPT !.nSamples = rows], 0)

\* sf.SoundFile(filename), and sndFile.seek to startTime when one is given
OpenAtStart(snd, fileRate, fileChannels) ==
    IF snd.startTime > 0
    THEN [snd EXCEPT !.sourceType = "file", !.sampleRate = fileRate,
                     !.channels = fileChannels, !.fileOpen = TRUE,
                     !.filePos = (snd.startTime * fileRate) \div TicksPerSec,
                     !.t = snd.startTime]
    ELSE [snd EXCEPT !.sourceType = "file", !.sampleRate = fileRate,
                     !.channels = fileChannels, !.fileOpen = TRUE,
                     !.filePos = 0, !.t = 0]

\* self.durationFrames of the opened file
durationFrames(snd) ==
    FrameAt(snd, IF snd.stopTime > 0
                 THEN IF snd.stopTime - snd.t < FileTicks(snd)
                      THEN snd.stopTime - snd.t ELSE FileTicks(snd)
                 ELSE FileTicks(snd) - snd.t)

\* preBuffer = -1: the frames are read into an array and the file is closed;
\* preBuffer = 0: the file stays open for _nextBlock
PreBuffered(snd) ==
    IF snd.preBuffer = 0 - 1
    THEN _setSndFromArray([snd EXCEPT !.fileOpen = FALSE, !.filePos = 0],
                          ReadCount(snd, durationFrames(snd)))
    ELSE snd

_setSndFromFile(snd, fileRate, fileChannels) ==
    PreBuffered(OpenAtStart(snd, fileRate, fileChannels))

\* the value given to setSound: a frequency or note, a file, an array
Values ==
    [kind : {"freq", "array"}, rate : {0}, channels : {0}]
        \cup [kind : {"file"}, rate : SampleRates, channels : ChannelCounts]

Tone == [kind |-> "freq", rate |-> 0, channels |-> 0]

\* _SoundBase.setSound: hands the value to the _setSndFrom... method of its type
BaseSetSound(snd, value, secs) ==
    CASE value.kind = "freq" -> _setSndFromFreq(snd, secs)
      [] value.kind = "file" -> _setSndFromFile(snd, value.rate, value.channels)
      [] OTHER -> _setSndFromArray(snd, ArrayRows)

SubCall(op, args, r) ==
    [op |-> op, args |-> args, raised |-> r.raised, found |-> r.found, label |-> r.label]

\* except SoundFormatError
Caught(raised) == raised = SoundFormatError

\* seeded fault: the fallback asks for the sound's own channels
SimilarChannels_Own(snd) == snd.channels

\* the channels and blockSize setSound hands to getSimilar
SimilarChannels(snd) == 0 - 1
SimilarBlockSize(snd) == 0 - 1

\* seeded fault: the sound keeps its own parameters on a similar stream
FitToStream_LabelOnly(snd, s, label) == [snd EXCEPT !.streamLabel = label]

\* update self in case it changed to fit the stream
FitToStream(snd, s, label) ==
    [snd EXCEPT !.sampleRate = s.sampleRate, !.channels = s.channels,
                !.blockSize = s.blockSize, !.streamLabel = label]

\* setSound: the sound after it, the exception it raised, the registry after it
\* and the registry calls it made, in order
setSound(snd0, value, secs, reg, ob) ==
    LET snd == BaseSetSound(snd0, value, secs)
        g   == getStream(reg, ob, snd.sampleRate, snd.channels, snd.blockSize)
        gc  == SubCall("getStream", <<snd.sampleRate, snd.channels, snd.blockSize>>, g)
        a   == getSimilar(reg, ob, snd.sampleRate, SimilarChannels(snd),
                          SimilarBlockSize(snd))
        ac  == SubCall("getSimilar",
                       <<snd.sampleRate, SimilarChannels(snd), SimilarBlockSize(snd)>>, a)
    IN  IF g.raised = ""
        THEN [snd |-> [snd EXCEPT !.streamLabel = g.label], raised |-> "",
              reg |-> g.reg, ob |-> g.ob, gs |-> g.gs, trace |-> <<gc>>]
        ELSE IF ~Caught(g.raised)
        THEN [snd |-> snd, raised |-> g.raised, reg |-> g.reg, ob |-> g.ob,
              gs |-> g.gs, trace |-> <<gc>>]
        ELSE IF a.raised # ""
        THEN [snd |-> snd, raised |-> a.raised, reg |-> a.reg, ob |-> a.ob,
              gs |-> a.gs, trace |-> <<gc, ac>>]
        ELSE IF ~a.found
        THEN [snd |-> snd, raised |-> SoundFormatError, reg |-> a.reg, ob |-> a.ob,
              gs |-> a.gs, trace |-> <<gc, ac>>]
        ELSE [snd |-> FitToStream(snd, a.ob[a.stream], a.label), raised |-> "",
              reg |-> a.reg, ob |-> a.ob, gs |-> a.gs, trace |-> <<gc, ac>>]

(***************************************************************************)
(* visual/stereo.py: the GL context of a MultiRenderWindow.  A framebuffer *)
(* holds the set of frames whose drawings are in its colour buffer; "back" *)
(* is the default framebuffer 0.                                           *)
(***************************************************************************)
Framebuffers == {"back", "leftMSAAFBO", "rightMSAAFBO", "leftFBO", "rightFBO"}

WindowClasses == {"MultiRenderWindow", "SpannedWindow", "AnaglyphWindow"}

Buffers == {"left", "right", "both"}

\* no stereo window has been opened
NoWindow ==
    [win |-> "none", bound |-> "back", pix |-> [f \in Framebuffers |-> {}],
     frame |-> 1, last |-> <<"none">>]

glBindFramebuffer(g, fbo) == [g EXCEPT !.bound = fbo]

\* GL.glClear(GL.GL_COLOR_BUFFER_BIT)
glClear(g) == [g EXCEPT !.pix[g.bound] = {}]

\* glBlitFramebufferEXT from the read framebuffer to the draw framebuffer
glBlitFramebuffer(g, read, draw) == [g EXCEPT !.pix[draw] = g.pix[read], !.bound = draw]

\* _setupMultiSampleFBO and _setupSimpleFBO: generate, bind and clear
setupFBO(g, fbo) == glClear(glBindFramebuffer(g, fbo))

_setupStereoFBO(g) ==
    setupFBO(setupFBO(setupFBO(setupFBO(g, "leftMSAAFBO"), "rightMSAAFBO"),
                      "leftFBO"), "rightFBO")

setBuffer(g, buffer, clear) ==
    LET b == IF buffer = "left" THEN glBindFramebuffer(g, "leftMSAAFBO")
             ELSE IF buffer = "right" THEN glBindFramebuffer(g, "rightMSAAFBO")
             ELSE g
    IN  IF clear THEN glClear(b) ELSE b

\* stim.draw(): the drawing of this frame goes to the bound framebuffer
draw(g) == [g EXCEPT !.pix[g.bound] = @ \cup {g.frame}]

\* pass in MultiRenderWindow; SpannedWindow and AnaglyphWindow blit each eye
_resolveMSAA(g) ==
    IF g.win = "MultiRenderWindow" THEN g
    ELSE glBlitFramebuffer(glBlitFramebuffer(g, "leftMSAAFBO", "leftFBO"),
                           "rightMSAAFBO", "rightFBO")

\* pass in MultiRenderWindow; the subclasses draw both eye textures over the
\* whole of the bound framebuffer
_stereoRender(g) ==
    IF g.win = "MultiRenderWindow" THEN g
    ELSE [g EXCEPT !.pix[g.bound] = g.pix["leftFBO"] \cup g.pix["rightFBO"]]

_endOfFlip(g, clearBuffer) ==
    IF clearBuffer
    THEN glClear(glBindFramebuffer(glClear(glBindFramebuffer(g, "rightFBO")), "leftFBO"))
    ELSE g

\* flipThisFrame is what _startOfFlip of the base window returned
flip(g, clearBuffer, flipThisFrame) ==
    LET shown == IF flipThisFrame
                 THEN _stereoRender(glBindFramebuffer(_resolveMSAA(g), "back"))
                 ELSE g
    IN  [_endOfFlip(shown, clearBuffer) EXCEPT !.frame = @ + 1]

(***************************************************************************)
(* The state after import, and the calls of the client script              *)
(***************************************************************************)
\* again: getStream returned a <<label, stream>> pair it had returned before
Call(op, snd, raised, again) ==
    [op |-> op, snd |-> snd, raised |-> raised, again |-> again]

NoMark == [kind |-> "none", t |-> 0, later |-> FALSE]

\* no callback invocation has run as a whole yet
NoOut ==
    [k |-> 0, buf |-> <<>>, raised |-> "", before |-> <<>>, pulled |-> <<>>,
     failed |-> <<>>, mix |-> <<>>]

\* both threads are between calls: no line of pause(), stop() or of the handling of
\* a short block is pending
NoRace ==
    [cl |-> "idle", cs |-> 0, cb |-> "idle", s |-> 0, op |-> "none",
     before |-> <<>>, eos |-> 0, raised |-> "", later |-> "none"]

Init ==
    /\ platform \in {"win32", "other"}
    /\ streams = <<>>
    /\ objs = <<>>
    /\ snds = [s \in Sounds |-> NoSound]
    /\ cbPos = <<>>
    /\ lastCall = Call("none", 0, "", FALSE)
    /\ returned = {}
    /\ mark = [s \in Sounds |-> NoMark]
    /\ out = NoOut
    /\ gl = NoWindow
    /\ pc = NoRace

\* a new stream's callback is not running
GrowCb(ob) == cbPos \o [i \in 1..(Len(ob) - Len(cbPos)) |-> 0]

\* the registry part of the state after a call that yielded r
Registry(r) ==
    /\ Len(r.ob) <= MaxStreams
    /\ streams' = r.reg
    /\ objs' = r.ob
    /\ cbPos' = GrowCb(r.ob)
    /\ returned' = returned \cup r.gs

\* streams.getStream(sampleRate, channels, blockSize)
GetStreamCall(sampleRate, channels, blockSize) ==
    \E r \in {getStream(streams, objs, sampleRate, channels, blockSize)} :
        /\ Registry(r)
        /\ lastCall' = Call("getStream", 0, r.raised, r.gs # {} /\ r.gs \subseteq returned)
        /\ UNCHANGED <<pc, gl, platform, snds, mark, out>>

\* streams.getSimilar(sampleRate, channels, blockSize)
GetSimilarCall(sampleRate, channels, blockSize) ==
    \E r \in {getSimilar(streams, objs, sampleRate, channels, blockSize)} :
        /\ Registry(r)
        /\ lastCall' = Call("getSimilar", 0, r.raised, FALSE)
        /\ UNCHANGED <<pc, gl, platform, snds, mark, out>>

\* SoundDeviceSound(value, ...) with the fields init before setSound: the next
\* sound object of the script; when setSound raises there is no object
ConstructWith(s, value, init) ==
    /\ ~snds[s].made
    /\ \A q \in Sounds : q < s => snds[q].made
    /\ \E r \in {setSound(init, value, init.secs, streams, objs)} :
          /\ Registry(r)
          /\ snds' = IF r.raised # "" THEN snds
                     ELSE [snds EXCEPT ![s] = [r.snd EXCEPT !.status = NOT_STARTED]]
          /\ lastCall' = Call("construct", s, r.raised, FALSE)
    /\ UNCHANGED <<pc, gl, platform, mark, out>>

\* SoundDeviceSound(value, sampleRate=..., blockSize=..., loops=...)
Construct(s, value, sampleRate, blockSize, loops) ==
    ConstructWith(s, value, InitFields(sampleRate, blockSize, loops, HalfSec))

\* snd.setSound(value, secs) on an existing sound
SetSoundCall(s, value, secs) ==
    \E r \in {setSound(snds[s], value, secs, streams, objs)} :
        /\ snds[s].made
        /\ Registry(r)
        /\ snds' = [snds EXCEPT ![s] = r.snd]
        /\ lastCall' = Call("setSound", s, r.raised, FALSE)
        /\ mark' = [mark EXCEPT ![s] = NoMark]
        /\ UNCHANGED <<pc, gl, platform, out>>

(***************************************************************************)
(* The registry under the calls that reach it                              *)
(***************************************************************************)
GetStreamArgs == SampleRates \X ChannelCounts \X RegBlockSizes

GetSimilarArgs ==
    (SampleRates \cup {Wild}) \X (ChannelCounts \cup {Wild}) \X (RegBlockSizes \cup {Wild})

NextRegistry ==
    \/ \E a \in GetStreamArgs : GetStreamCall(a[1], a[2], a[3])
    \/ \E a \in GetSimilarArgs : GetSimilarCall(a[1], a[2], a[3])
    \/ \E s \in 1..RegSounds, v \in Values, sr \in SampleRates, bs \in RegBlockSizes :
          Construct(s, v, sr, bs, 0)
    \/ \E s \in 1..RegSounds, v \in Values : SetSoundCall(s, v, HalfSec)

SpecRegistry == Init /\ [][NextRegistry]_vars

(***************************************************************************)
(* Properties of the registry                                              *)
(***************************************************************************)
\* the stream object stored under the i-th key
StreamAt(i) == objs[streams[i].stream]

\* the i-th stored key has the requested value in every place that is not a wildcard
FieldsEqual(i, a) ==
    /\ a[1] # Wild => StreamAt(i).sampleRate = a[1]
    /\ a[2] # Wild => StreamAt(i).channels = a[2]
    /\ a[3] # Wild => StreamAt(i).blockSize = a[3]

Matching(a) == {i \in 1..Len(streams) : FieldsEqual(i, a)}

Concrete(a) == a[1] # Wild /\ a[2] # Wild /\ a[3] # Wild

\* C1: getStream called again with a key returns the stream instance it returned for
\* that key before, whatever was called in between, and the registry holds exactly
\* one entry for the key.
C1_GetStreamIdempotent ==
    \A p \in returned :
        /\ \A q \in returned : p[1] = q[1] => p[2] = q[2]
        /\ Cardinality({i \in 1..Len(streams) : streams[i].label = p[1]}) = 1
        /\ Lookup(streams, p[1]) = p[2]

\* C1 witness: with two streams stored, getStream has just returned, for the second
\* time, the stream of a key
C1_Witness ==
    /\ Len(streams) = 2
    /\ lastCall.op = "getStream"
    /\ lastCall.raised = ""
    /\ lastCall.again

\* C2: on a single-stream platform the registry never holds more than one entry.
C2_SingleStream == platform = "win32" => Len(streams) <= 1

\* C2 witness: a stream exists on win32 and a getSimilar call with three given
\* values, which went on to getStream, has just failed
C2_Witness ==
    /\ platform = "win32"
    /\ Len(streams) = 1
    /\ lastCall.op = "getSimilar"
    /\ lastCall.raised = SoundFormatError

\* C3: on a single-stream platform with a stream in the registry, getStream with
\* another key raises the error setSound catches, creates nothing and leaves the
\* registry as it is; getStream with the stored key returns the stored stream.
C3_SecondStreamFails ==
    (platform = "win32" /\ Len(streams) > 0) =>
        \A a \in SampleRates \X (ChannelCounts \cup {None}) \X RegBlockSizes :
            LET r == getStream(streams, objs, a[1], a[2], a[3]) IN
            /\ r.reg = streams
            /\ r.ob = objs
            /\ IF getStreamLabel(a[1], a[2], a[3]) \in Keys(streams)
               THEN r.raised = "" /\ r.found /\ r.stream = streams[1].stream
               ELSE Caught(r.raised) /\ ~r.found

\* C3 witness: on win32, with a stream stored, a getStream call has just raised
C3_Witness ==
    /\ platform = "win32"
    /\ Len(streams) = 1
    /\ lastCall.op = "getStream"
    /\ lastCall.raised = SoundFormatError

\* C4 (as claimed): every stored key is made of three whole numbers: no key holds a
\* wildcard (-1) or a missing value (None).
C4_KeysConcrete ==
    \A i \in 1..Len(streams) :
        /\ \A j \in 1..Len(streams[i].label) :
              IsDigit(streams[i].label[j]) \/ streams[i].label[j] = "_"
        /\ StreamAt(i).sampleRate \notin {None, Wild}
        /\ StreamAt(i).channels \notin {None, Wild}
        /\ StreamAt(i).blockSize \notin {None, Wild}

\* C5 (as claimed): when getSimilar returns a stream that existed, every requested
\* value that is not a wildcard equals the value of the returned stream's key.
C5_SimilarFieldsEqual ==
    \A a \in GetSimilarArgs :
        LET r == getSimilar(streams, objs, a[1], a[2], a[3]) IN
        (r.found /\ r.stream <= Len(objs)) =>
            /\ a[1] # Wild => objs[r.stream].sampleRate = a[1]
            /\ a[2] # Wild => objs[r.stream].channels = a[2]
            /\ a[3] # Wild => objs[r.stream].blockSize = a[3]

\* C6 (as claimed): when some stored key has the requested values, getSimilar returns
\* the first such entry and adds nothing to the registry.
C6_SimilarFindsFirst ==
    \A a \in GetSimilarArgs :
        LET r == getSimilar(streams, objs, a[1], a[2], a[3])
            m == Matching(a)
        IN  m # {} =>
                /\ r.raised = ""
                /\ r.found
                /\ \E i \in m : (\A k \in m : i <= k) /\ r.label = streams[i].label
                                /\ r.stream = streams[i].stream
                /\ r.reg = streams
                /\ r.ob = objs

\* C7 (as claimed): when no stored key has the requested values, getSimilar goes to
\* getStream to create the stream exactly if all three values are given; with a
\* wildcard it returns None, raises nothing and leaves the registry as it is.
C7_SimilarNoMatch ==
    \A a \in GetSimilarArgs :
        LET r == getSimilar(streams, objs, a[1], a[2], a[3]) IN
        Matching(a) = {} =>
            IF Concrete(a)
            THEN /\ r = getStream(streams, objs, a[1], a[2], a[3])
                 /\ r.raised = "" => (Len(r.ob) = Len(objs) + 1 /\ r.stream = Len(r.ob))
            ELSE r.raised = "" /\ ~r.found /\ r.reg = streams /\ r.ob = objs

\* the sounds setSound may be called on: a sound under construction, or one made
SetSoundInputs ==
    {InitFields(sr, bs, 0, HalfSec) : sr \in SampleRates, bs \in RegBlockSizes}
        \cup {snds[s] : s \in {q \in Sounds : snds[q].made}}

\* C8: setSound asks getStream for the sound's own parameters; if that raises the
\* single-stream error it asks getSimilar for the sound's sample rate with channels
\* and blockSize as wildcards; if that finds nothing, setSound raises the same error
\* and the registry and the streams are as before.
C8_ResolutionOrder ==
    \A snd0 \in SetSoundInputs, v \in Values :
        LET r     == setSound(snd0, v, HalfSec, streams, objs)
            want  == BaseSetSound(snd0, v, HalfSec)
            exact == getStream(streams, objs, want.sampleRate, want.channels,
                               want.blockSize)
            simil == getSimilar(streams, objs, want.sampleRate, Wild, Wild)
        IN  /\ r.trace[1].op = "getStream"
            /\ r.trace[1].args = <<want.sampleRate, want.channels, want.blockSize>>
            /\ IF exact.raised = ""
               THEN /\ Len(r.trace) = 1
                    /\ r.raised = ""
                    /\ r.snd.streamLabel = exact.label
                    /\ r.reg = exact.reg
                    /\ r.ob = exact.ob
               ELSE /\ Len(r.trace) = 2
                    /\ r.trace[2].op = "getSimilar"
                    /\ r.trace[2].args = <<want.sampleRate, Wild, Wild>>
                    /\ IF simil.found
                       THEN r.raised = "" /\ r.snd.streamLabel = simil.label
                       ELSE r.raised = exact.raised /\ r.reg = streams /\ r.ob = objs

\* C8 witness: with a stream of another sample rate stored, a construction has just
\* failed: getStream raised and getSimilar found nothing
C8_Witness ==
    /\ lastCall.op = "construct"
    /\ lastCall.raised = SoundFormatError
    /\ Len(streams) = 1
    /\ StreamAt(1).channels = 2
    /\ ~snds[1].made

\* C9: after a construction or a setSound that raised nothing, the sound's stream
\* label is a key of the registry and the sound's sampleRate, channels and blockSize
\* are those of the stream stored under it.
C9_SoundFitsStream ==
    (lastCall.op \in {"construct", "setSound"} /\ lastCall.raised = "") =>
        LET snd == snds[lastCall.snd] IN
        /\ snd.made
        /\ HasKey(streams, snd.streamLabel)
        /\ LET o == objs[Lookup(streams, snd.streamLabel)] IN
           /\ snd.sampleRate = o.sampleRate
           /\ snd.channels = o.channels
           /\ snd.blockSize = o.blockSize

\* C9 witness: a tone, which has no channel count of its own, has just been attached
\* to a similar stream of two channels and has taken its channel count
C9_Witness ==
    /\ lastCall.op \in {"construct", "setSound"}
    /\ lastCall.raised = ""
    /\ snds[lastCall.snd].sourceType = "freq"
    /\ snds[lastCall.snd].channels = 2

(***************************************************************************)
(* Playback: play, pause, stop on the client's thread and the callback of  *)
(* a stream on the driver's thread.  Each client call is one step.  The    *)
(* callback is one step per sound its loop visits, so that client calls    *)
(* fall between the iterations.  Only tones are played: their stream has   *)
(* no channel count (None), so the callback adds each block to channel 0.  *)
(* The samples written to the output buffer are not part of the state of   *)
(* this script: what a pass of the loop does to the sounds and the list    *)
(* does not depend on them.                                                *)
(***************************************************************************)
\* list.remove(x) of a list that holds x: the first occurrence goes
RemoveFirst(seq, x) ==
    LET i == CHOOSE j \in 1..Len(seq) : seq[j] = x /\ \A k \in 1..(j - 1) : seq[k] # x
    IN  SubSeq(seq, 1, i - 1) \o SubSeq(seq, i + 1, Len(seq))

Holds(seq, x) == \E i \in 1..Len(seq) : seq[i] = x

\* the sounds and the streams, as the methods below change them
World(sn, ob) == [snds |-> sn, objs |-> ob]

\* streams[self.streamLabel]
StreamOf(W, s) == Lookup(streams, W.snds[s].streamLabel)

\* _SoundStream.add
add(W, k, s) == [W EXCEPT !.objs[k].sounds = Append(@, s)]

\* _SoundStream.remove
remove(W, k, s) ==
    IF Holds(W.objs[k].sounds, s)
    THEN [W EXCEPT !.objs[k].sounds = RemoveFirst(@, s)]
    ELSE W

\* SoundDeviceSound.play()
play(W, s) ==
    add([W EXCEPT !.snds[s].status = PLAYING], StreamOf(W, s), s)

\* SoundDeviceSound.pause()
pause(W, s) ==
    remove([W EXCEPT !.snds[s].status = PAUSED], StreamOf(W, s), s)

\* SoundDeviceSound.stop()
stop(W, s) ==
    LET W1 == remove(W, StreamOf(W, s), s)
        W2 == [W1 EXCEPT !.snds[s] = seek(@, 0)]
    IN  [W2 EXCEPT !.snds[s].status = STOPPED]

\* SoundDeviceSound._EOS()
_EOS(W, s) ==
    LET W1 == [W EXCEPT !.snds[s].loopsFinished = @ + 1]
        W2 == IF W1.snds[s].loops = 0 THEN stop(W1, s)
              ELSE IF W1.snds[s].loops > 0
                      /\ W1.snds[s].loopsFinished >= W1.snds[s].loops
                   THEN stop(W1, s)
                   ELSE W1
        W3 == remove(W2, StreamOf(W2, s), s)
    IN  [W3 EXCEPT !.snds[s].status = FINISHED]

\* self.blockSize/float(self.sampleRate), in ticks
BlockTicks(snd) == (snd.blockSize * TicksPerSec) \div snd.sampleRate

UnboundLocalError == "UnboundLocalError"
ValueError == "ValueError"

\* np.sin(xx): the samples of a tone, kept as one level per sound that is not 0
Wave(s) == s

\* framesLeft = (self.stopTime-self.t)*self.sampleRate, for times on frame borders
framesLeft(snd) == ((snd.stopTime - snd.t) * snd.sampleRate) \div TicksPerSec

\* nFrames = min(self.blockSize, framesLeft)
nFrames(snd) == IF framesLeft(snd) < snd.blockSize THEN framesLeft(snd) ELSE snd.blockSize

\* where a[i:j] puts an index of an array of that many rows
SliceIndex(rows, i) ==
    IF i < 0 THEN (IF rows + i < 0 THEN 0 ELSE rows + i)
    ELSE (IF i > rows THEN rows ELSE i)

\* len(a[i:j]) of an array of that many rows
SliceLen(rows, i, j) ==
    IF SliceIndex(rows, j) > SliceIndex(rows, i)
    THEN SliceIndex(rows, j) - SliceIndex(rows, i)
    ELSE 0

\* self.sourceType == 'file' and self.preBuffer == 0
Streaming(snd) == snd.sourceType = "file" /\ snd.preBuffer = 0

\* (self.sourceType == 'file' and self.preBuffer == -1) or self.sourceType == 'array'
FromArray(snd) ==
    (snd.sourceType = "file" /\ snd.preBuffer = 0 - 1) \/ snd.sourceType = "array"

\* some branch of _nextBlock assigns block
Assigned(snd) ==
    \/ Streaming(snd)
    \/ FromArray(snd) /\ snd.stereo \in {0, 1}
    \/ ~FromArray(snd) /\ snd.sourceType = "freq"

\* len(block): what the file still yields, the rows of the slice of sndArr, or
\* the blockSize samples of a tone
BlockLen(snd) ==
    IF Streaming(snd) THEN ReadCount(snd, nFrames(snd))
    ELSE IF FromArray(snd)
    THEN SliceLen(snd.nSamples, FrameAt(snd, snd.t), FrameAt(snd, snd.t) + nFrames(snd))
    ELSE snd.blockSize

\* the axes of block: the frames of a two-channel file come in rows of two samples
BlockDims(snd) == IF snd.sourceType = "freq" THEN 1 ELSE 2

\* the block, kept as one level per sound that is not 0
BlockOf(snd, s) ==
    IF BlockDims(snd) = 1
    THEN [i \in 1..BlockLen(snd) |-> Wave(s)]
    ELSE [i \in 1..BlockLen(snd) |-> <<Wave(s), Wave(s)>>]

\* the sound after the branch of _nextBlock it takes: reading moves the file on
Fetched(snd) ==
    IF Streaming(snd)
    THEN [snd EXCEPT !.filePos = @ + ReadCount(snd, nFrames(snd))]
    ELSE snd

\* seeded fault: a pull moves the cursor back by a block
Advanced_Back(W, s) == [W EXCEPT !.snds[s].t = @ - BlockTicks(W.snds[s])]

\* self.t += self.blockSize/float(self.sampleRate)
Advanced(W, s) == [W EXCEPT !.snds[s].t = @ + BlockTicks(W.snds[s])]

\* SoundDeviceSound._nextBlock(): the world after it, the block, its len() and its
\* axes, or the exception raised.  A tone yields blockSize samples in one dimension,
\* none of them set to 0 past secs, and calls _EOS itself when the block runs past
\* secs.  With stereo = -1 a file read whole and an array assign no block: return
\* block raises after the cursor has moved.
_nextBlock(W, s) ==
    LET snd   == W.snds[s]
        stopT == snd.t + BlockTicks(snd)
        W1    == IF Streaming(snd) \/ FromArray(snd)
                 THEN [W EXCEPT !.snds[s] = Fetched(snd)]
                 ELSE IF snd.sourceType = "freq" /\ stopT > snd.secs THEN _EOS(W, s)
                 ELSE W
    IN  IF Assigned(snd)
        THEN [W |-> Advanced(W1, s), len |-> BlockLen(snd), dat |-> BlockOf(snd, s),
              dims |-> BlockDims(snd), raised |-> ""]
        ELSE [W |-> Advanced(W1, s), len |-> 0, dat |-> <<>>, dims |-> 1,
              raised |-> UnboundLocalError]

(***************************************************************************)
(* The output buffer toSpk: frames rows of one sample per channel.  The    *)
(* driver hands it over with whatever its memory holds.  A stream opened   *)
(* for one channel gets one column; a stream opened for two channels, or   *)
(* for None (the device's own count, taken to be a stereo device), two.    *)
(* Samples are floats: NaN is the float that stays NaN under * and +.      *)
(***************************************************************************)
NaN == 0 - 1000002

Width(stream) == IF stream.channels = 1 THEN 1 ELSE 2

Filled(stream, v) == [i \in 1..stream.blockSize |-> [c \in 1..Width(stream) |-> v]]

\* x * 0 and x + y of floats
TimesZero(x) == IF x = NaN THEN NaN ELSE 0

Plus(x, y) == IF x = NaN \/ y = NaN THEN NaN ELSE x + y

\* toSpk *= 0
Cleared(buf) == [i \in 1..Len(buf) |-> [c \in 1..Len(buf[i]) |-> TimesZero(buf[i][c])]]

Min(a, b) == IF a < b THEN a ELSE b

\* toSpk[:len(dat), :] += dat  for dat of one dimension: numpy lines dat up with the
\* last axis (the channels), so len(dat) has to be the channel count or 1
AddAcross(buf, dat) ==
    LET rows == Min(Len(dat), Len(buf)) IN
    IF Len(dat) = 1 \/ (Len(buf) > 0 /\ Len(dat) = Len(buf[1]))
    THEN [buf |-> [i \in 1..Len(buf) |->
                      IF i <= rows
                      THEN [c \in 1..Len(buf[i]) |->
                               Plus(buf[i][c], dat[IF Len(dat) = 1 THEN 1 ELSE c])]
                      ELSE buf[i]],
          raised |-> ""]
    ELSE [buf |-> buf, raised |-> ValueError]

\* toSpk[:len(dat), 0] += dat  for dat of one dimension
AddFirst(buf, dat) ==
    IF Len(dat) <= Len(buf) \/ Len(dat) = 1
    THEN [buf |-> [i \in 1..Len(buf) |->
                      IF i <= Len(dat)
                      THEN [buf[i] EXCEPT ![1] = Plus(@, dat[i])]
                      ELSE buf[i]],
          raised |-> ""]
    ELSE [buf |-> buf, raised |-> ValueError]

\* toSpk[:len(dat), :] += dat  for dat of two dimensions: the rows have to be as
\* many as the buffer takes
AddRows(buf, dat) ==
    IF Len(dat) <= Len(buf)
    THEN [buf |-> [i \in 1..Len(buf) |->
                      IF i <= Len(dat)
                      THEN [c \in 1..Len(buf[i]) |-> Plus(buf[i][c], dat[i][c])]
                      ELSE buf[i]],
          raised |-> ""]
    ELSE [buf |-> buf, raised |-> ValueError]

\* if self.channels == 2: ... else: ...  for dat of one dimension
AddBlock(buf, dat, channels) ==
    IF channels = 2 THEN AddAcross(buf, dat) ELSE AddFirst(buf, dat)

\* the same for dat of two dimensions: toSpk[:len(dat), 0] += dat has no shape that
\* takes the two columns
AddBlock2(buf, dat, channels) ==
    IF channels = 2 THEN AddRows(buf, dat) ELSE [buf |-> buf, raised |-> ValueError]

Added(buf, nb, channels) ==
    IF nb.dims = 1 THEN AddBlock(buf, nb.dat, channels) ELSE AddBlock2(buf, nb.dat, channels)

\* the pass after dat = thisSound._nextBlock() yielded nb and the addition yielded ad
AfterAdd(W, k, thisSound, nb, ad) ==
    IF ad.raised # ""
    THEN [W |-> nb.W, buf |-> ad.buf, pulled |-> TRUE, dat |-> nb.dat, dims |-> nb.dims,
          raised |-> ad.raised]
    ELSE IF nb.len < Len(ad.buf)
    THEN IF Holds(nb.W.objs[k].sounds, thisSound)
         THEN [W |-> _EOS(remove(nb.W, k, thisSound), thisSound), buf |-> ad.buf,
               pulled |-> TRUE, dat |-> nb.dat, dims |-> nb.dims, raised |-> ""]
         ELSE [W |-> nb.W, buf |-> ad.buf, pulled |-> TRUE, dat |-> nb.dat, dims |-> nb.dims,
               raised |-> ValueError]
    ELSE [W |-> nb.W, buf |-> ad.buf, pulled |-> TRUE, dat |-> nb.dat, dims |-> nb.dims, raised |-> ""]

\* the pass after dat = thisSound._nextBlock() yielded nb
AfterFetch(W, buf, k, thisSound, nb) ==
    IF nb.raised # ""
    THEN [W |-> nb.W, buf |-> buf, pulled |-> FALSE, dat |-> <<>>, dims |-> 1,
          raised |-> nb.raised]
    ELSE AfterAdd(W, k, thisSound, nb, Added(buf, nb, W.objs[k].channels))

\* the body of the callback's loop for thisSound of stream k: the world and the
\* buffer after it, the block it pulled, and the exception that ended it, if any
LoopBody(W, buf, k, thisSound) ==
    AfterFetch(W, buf, k, thisSound, _nextBlock(W, thisSound))

\* s.play() while the list of its stream has fewer than n entries
PlayUpTo(s, n) ==
    /\ snds[s].made
    /\ Len(objs[StreamOf(World(snds, objs), s)].sounds) < n
    /\ \E W \in {play(World(snds, objs), s)} :
        /\ snds' = W.snds
        /\ objs' = W.objs
        /\ mark' = [mark EXCEPT ![s] = NoMark]
        /\ UNCHANGED <<pc, gl, platform, streams, cbPos, lastCall, returned, out>>

Play(s) == PlayUpTo(s, MaxActive)

\* seeded fault: pause() waits until the callback of the sound's stream has returned
Pause_Locked(s) ==
    /\ snds[s].made
    /\ cbPos[StreamOf(World(snds, objs), s)] = 0
    /\ \E W \in {pause(World(snds, objs), s)} :
        /\ snds' = W.snds
        /\ objs' = W.objs
        /\ mark' = [mark EXCEPT ![s] = [kind |-> "paused", t |-> W.snds[s].t, later |-> FALSE]]
        /\ UNCHANGED <<pc, gl, platform, streams, cbPos, lastCall, returned, out>>

Pause(s) ==
    /\ snds[s].made
    /\ \E W \in {pause(World(snds, objs), s)} :
        /\ snds' = W.snds
        /\ objs' = W.objs
        /\ mark' = [mark EXCEPT ![s] = [kind |-> "paused", t |-> W.snds[s].t, later |-> FALSE]]
        /\ UNCHANGED <<pc, gl, platform, streams, cbPos, lastCall, returned, out>>

Stop(s) ==
    /\ snds[s].made
    /\ \E W \in {stop(World(snds, objs), s)} :
        /\ snds' = W.snds
        /\ objs' = W.objs
        /\ mark' = [mark EXCEPT ![s] = [kind |-> "stopped", t |-> W.snds[s].t, later |-> FALSE]]
        /\ UNCHANGED <<pc, gl, platform, streams, cbPos, lastCall, returned, out>>

\* the driver calls stream k's callback: the loop's iterator is at index 0
CallbackEnter(k) ==
    /\ cbPos[k] = 0
    /\ cbPos' = [cbPos EXCEPT ![k] = 1]
    /\ mark' = [s \in Sounds |->
                   IF mark[s].kind # "none" /\ StreamOf(World(snds, objs), s) = k
                   THEN [mark[s] EXCEPT !.later = TRUE] ELSE mark[s]]
    /\ UNCHANGED <<pc, gl, platform, streams, objs, snds, lastCall, returned, out>>

\* one pass of "for thisSound in self.sounds": the iterator yields the entry at its
\* index and moves on; an exception ends the callback
CallbackPass(k) ==
    /\ cbPos[k] >= 1
    /\ cbPos[k] <= Len(objs[k].sounds)
    /\ \E b \in {LoopBody(World(snds, objs), Filled(objs[k], 0), k,
                         objs[k].sounds[cbPos[k]])} :
          /\ snds' = b.W.snds
          /\ objs' = b.W.objs
          /\ cbPos' = [cbPos EXCEPT ![k] = IF b.raised = "" THEN @ + 1 ELSE 0]
    /\ UNCHANGED <<pc, gl, platform, streams, lastCall, returned, mark, out>>

\* the pass, while the sound it pulls from is within the bounds of the model
CallbackNext(k) ==
    /\ cbPos[k] >= 1
    /\ cbPos[k] <= Len(objs[k].sounds)
    /\ snds[objs[k].sounds[cbPos[k]]].t < MaxT
    /\ snds[objs[k].sounds[cbPos[k]]].loopsFinished < MaxEOS
    /\ CallbackPass(k)

\* the iterator is past the end of the list: the callback returns
CallbackReturn(k) ==
    /\ cbPos[k] >= 1
    /\ cbPos[k] > Len(objs[k].sounds)
    /\ cbPos' = [cbPos EXCEPT ![k] = 0]
    /\ UNCHANGED <<pc, gl, platform, streams, objs, snds, lastCall, returned, mark, out>>

Next ==
    \/ \E s \in Sounds, sr \in PlaySampleRates, bs \in PlayBlockSizes, l \in LoopCounts :
          Construct(s, Tone, sr, bs, l)
    \/ \E s \in Sounds : Play(s)
    \/ \E s \in Sounds : Pause(s)
    \/ \E s \in Sounds : Stop(s)
    \/ \E k \in 1..Len(objs) : CallbackEnter(k)
    \/ \E k \in 1..Len(objs) : CallbackNext(k)
    \/ \E k \in 1..Len(objs) : CallbackReturn(k)

Spec == Init /\ [][Next]_vars

(***************************************************************************)
(* Properties of playback                                                  *)
(***************************************************************************)
\* C10 (as claimed): play() after pause() starts from the cursor the sound had when
\* pause() returned, and play() after stop() starts from cursor 0, when the client
\* made no other call on the sound in between.
C10_ResumePosition ==
    [][\A s \in Sounds :
          (Play(s) /\ mark[s].kind # "none") => snds'[s].t = mark[s].t]_vars

\* the loop budget of a sound is used up: no loop was asked for, or as many ends of
\* stream were met as loops were asked for (the test of _EOS)
LoopsExhausted(snd) ==
    \/ snd.loops = 0
    \/ snd.loops > 0 /\ snd.loopsFinished >= snd.loops

\* the callback of some stream has just run its loop body on s
PulledBy(k, s) ==
    /\ cbPos[k] >= 1
    /\ cbPos[k] <= Len(objs[k].sounds)
    /\ objs[k].sounds[cbPos[k]] = s
    /\ CallbackNext(k)

Pulled(s) == \E k \in 1..Len(objs) : PulledBy(k, s)

\* the changes of status the state machine lists, each with the operation it is for
ListedTransition(s) ==
    LET a == snds[s].status
        b == snds'[s].status
    IN  \/ a = NOT_STARTED /\ b = PLAYING /\ Play(s)
        \/ a = PLAYING /\ b = PAUSED /\ Pause(s)
        \/ a = PAUSED /\ b = PLAYING /\ Play(s)
        \/ a \in {PLAYING, PAUSED} /\ b = STOPPED /\ Stop(s)
        \/ a = PLAYING /\ b = FINISHED /\ Pulled(s) /\ LoopsExhausted(snds'[s])
        \/ a \in {FINISHED, STOPPED} /\ b = PLAYING /\ Play(s)

\* C11 (as claimed): a sound starts as NotStarted and every change of its status is
\* one of the listed transitions, made by the operation listed for it.
C11_ListedTransitions ==
    [][\A s \in Sounds :
          /\ (~snds[s].made /\ snds'[s].made) => snds'[s].status = NOT_STARTED
          /\ (snds[s].made /\ snds'[s].status # snds[s].status) => ListedTransition(s)]_vars

\* C12 (as claimed): once pause() or stop() on a sound has returned, no callback the
\* driver calls after that pulls a block from the sound before play() is called on it
\* again.
C12_NoPullAfterPause ==
    [][\A s \in Sounds : Pulled(s) => ~(mark[s].kind # "none" /\ mark[s].later)]_vars

\* the pull of s in this step met the end of its stream
MetEOS(s) == Pulled(s) /\ snds'[s].loopsFinished > snds[s].loopsFinished

\* s is in the list of playing sounds of its stream after this step
ActiveAfter(s) == Holds(objs'[StreamOf(World(snds, objs), s)].sounds, s)

\* C18 (as claimed): when a playing sound meets the end of its stream with loops > 0
\* and the count of finished loops, after being incremented, still below loops, it
\* does not become Finished, its cursor is back at the start and it stays in the
\* list of its stream, so that the next callbacks pull from it.
C18_LoopContinues ==
    [][\A s \in Sounds :
          (/\ snds[s].status = PLAYING
           /\ MetEOS(s)
           /\ snds[s].loops > 0
           /\ snds'[s].loopsFinished < snds[s].loops)
          => /\ snds'[s].status # FINISHED
             /\ snds'[s].t = 0
             /\ ActiveAfter(s)]_vars

\* C19 (as claimed): a sound with loops = 2 is Finished only after three playthroughs,
\* that is, after two ends of stream that sent it back to the start and a third that
\* finished it.
C19_TwoLoopsThreePlaythroughs ==
    \A s \in Sounds :
        (snds[s].made /\ snds[s].loops = 2 /\ snds[s].status = FINISHED)
            => snds[s].loopsFinished >= 3

\* C20 (as claimed): a playing sound with loops = -1 that meets the end of its stream
\* does not become Finished and stays in the list of its stream.
C20_LoopsForever ==
    [][\A s \in Sounds :
          (snds[s].status = PLAYING /\ snds[s].loops = 0 - 1 /\ MetEOS(s))
          => /\ snds'[s].status # FINISHED
             /\ ActiveAfter(s)]_vars

(***************************************************************************)
(* A script that sets the sound of an object again while it is in use:     *)
(* construction, setSound, play, pause and stop, with no callback running. *)
(***************************************************************************)
NextResolve ==
    \/ \E s \in 1..RegSounds, v \in Values, sr \in SampleRates, bs \in RegBlockSizes :
          Construct(s, v, sr, bs, 0)
    \/ \E s \in 1..RegSounds, v \in Values : SetSoundCall(s, v, HalfSec)
    \/ \E s \in 1..RegSounds : Play(s)
    \/ \E s \in 1..RegSounds : Pause(s)
    \/ \E s \in 1..RegSounds : Stop(s)

SpecResolve == Init /\ [][NextResolve]_vars

\* the streams whose list of playing sounds holds s
ActiveIn(s) == {k \in 1..Len(objs) : Holds(objs[k].sounds, s)}

\* C17 (as claimed): a sound is in the list of playing sounds of at most one stream.
C17_OneActiveSet == \A s \in Sounds : Cardinality(ActiveIn(s)) <= 1

(***************************************************************************)
(* Mixing: the callback of a stream run as a whole, from the clearing of   *)
(* the buffer to its return or to the exception that ends it, between the  *)
(* calls of a script that plays tones, files and arrays.                   *)
(***************************************************************************)
\* history of one invocation: the sounds whose _nextBlock returned a block, those
\* whose _nextBlock raised, and the sum of the blocks, each laid out in a silent buffer
NoPulls(stream) == [pulled |-> <<>>, failed |-> <<>>, mix |-> Filled(stream, 0)]

\* a block laid out in a silent buffer of the stream
Padded(stream, b) == Added(Filled(stream, 0), b, stream.channels).buf

SumOf(a, b) == [i \in 1..Len(a) |-> [c \in 1..Len(a[i]) |-> a[i][c] + b[i][c]]]

Pulls(h, stream, thisSound, b) ==
    IF b.pulled
    THEN [h EXCEPT !.pulled = Append(@, thisSound),
                   !.mix = SumOf(@, Padded(stream, b))]
    ELSE [h EXCEPT !.failed = Append(@, thisSound)]

\* the loop's state after the pass whose body yielded b
PassOf(st, k, thisSound, b) ==
    [W |-> b.W, buf |-> b.buf, i |-> st.i + 1, raised |-> b.raised,
     h |-> Pulls(st.h, st.W.objs[k], thisSound, b)]

\* one pass of "for thisSound in self.sounds" with the iterator at index st.i; past
\* the end of the list, or after an exception, the loop is over and nothing changes
Pass(st, k) ==
    IF st.raised # "" \/ st.i > Len(st.W.objs[k].sounds)
    THEN st
    ELSE PassOf(st, k, st.W.objs[k].sounds[st.i],
                LoopBody(st.W, st.buf, k, st.W.objs[k].sounds[st.i]))

\* _SoundStream.callback(toSpk, ...) of stream k: the buffer is cleared and the loop
\* runs to the end of the list, which never grows inside the callback
callback(W, k, toSpk) ==
    LET n == Len(W.objs[k].sounds)
        passes[j \in 0..n] ==
            IF j = 0
            THEN [W |-> W, buf |-> Cleared(toSpk), i |-> 1, raised |-> "",
                  h |-> NoPulls(W.objs[k])]
            ELSE Pass(passes[j - 1], k)
    IN  passes[n]

\* what the driver's memory may hold in every place of the buffer it hands over
Garbage == {0, 5, NaN}

\* the driver calls the callback of stream k with a buffer that holds v
Callback(k, v) ==
    /\ cbPos[k] = 0
    /\ \A i \in 1..Len(objs[k].sounds) :
          /\ snds[objs[k].sounds[i]].t < MaxT
          /\ snds[objs[k].sounds[i]].loopsFinished < MaxEOS
    /\ \E r \in {callback(World(snds, objs), k, Filled(objs[k], v))} :
          /\ snds' = r.W.snds
          /\ objs' = r.W.objs
          /\ out' = [k |-> k, buf |-> r.buf, raised |-> r.raised,
                     before |-> objs[k].sounds, pulled |-> r.h.pulled,
                     failed |-> r.h.failed, mix |-> r.h.mix]
    /\ mark' = [s \in Sounds |->
                   IF mark[s].kind # "none" /\ StreamOf(World(snds, objs), s) = k
                   THEN [mark[s] EXCEPT !.later = TRUE] ELSE mark[s]]
    /\ UNCHANGED <<pc, gl, platform, streams, cbPos, lastCall, returned>>

MixSampleRates == {8}
MixBlockSizes == {3}
MixValues ==
    {v \in Values : v.kind = "file" => v.rate \in MixSampleRates}

NextMix ==
    \/ \E s \in Sounds, v \in MixValues, sr \in MixSampleRates, bs \in MixBlockSizes :
          Construct(s, v, sr, bs, 0)
    \/ \E s \in Sounds : Play(s)
    \/ \E s \in Sounds : Pause(s)
    \/ \E s \in Sounds : Stop(s)
    \/ \E k \in 1..Len(objs), v \in Garbage : Callback(k, v)

SpecMix == Init /\ [][NextMix]_vars

\* s is an entry of the sequence q
In(q, s) == \E i \in 1..Len(q) : q[i] = s

\* C13 (as claimed): after a callback invocation the output buffer is the sum of the
\* blocks pulled from the sounds that were in the list, every sound of the list having
\* been pulled, each block padded with silence; nothing of what the buffer held
\* before remains, and with an empty list the buffer is all zeros.
C13_BufferIsSum ==
    (out.k # 0 /\ out.raised = "") =>
        /\ out.buf = out.mix
        /\ \A i \in 1..Len(out.before) : In(out.pulled, out.before[i])

\* the world with the two entries of stream k's list in the other order
Swapped(W, k) ==
    [W EXCEPT !.objs[k].sounds = <<W.objs[k].sounds[2], W.objs[k].sounds[1]>>]

\* the callback of stream k leaves the same buffer for both orders of its two sounds
SameMix(k, v) ==
    \E ab \in {callback(World(snds, objs), k, Filled(objs[k], v))},
       ba \in {callback(Swapped(World(snds, objs), k), k, Filled(objs[k], v))} :
        (ab.raised = "" /\ ba.raised = "") => ab.buf = ba.buf

\* C14 (as claimed): with two sounds A and B in the list of a stream, the callback
\* leaves the same output buffer when the list is A, B as when it is B, A, also in
\* the invocation in which one of them meets the end of its stream.
C14_MixCommutes ==
    \A k \in 1..Len(objs) :
        (/\ cbPos[k] = 0
         /\ Len(objs[k].sounds) = 2
         /\ objs[k].sounds[1] # objs[k].sounds[2])
        => \A v \in Garbage : SameMix(k, v)

\* C15 (as claimed): when the _nextBlock of a sound raises inside the callback, the
\* callback raises nothing, the sound is no longer in the list, and every other
\* sound that was in the list has been pulled and mixed.
C15_FailingSourceDropped ==
    (out.k # 0 /\ out.failed # <<>>) =>
        /\ out.raised = ""
        /\ \A i \in 1..Len(out.failed) : ~Holds(objs[out.k].sounds, out.failed[i])
        /\ \A i \in 1..Len(out.before) :
              In(out.failed, out.before[i]) \/ In(out.pulled, out.before[i])

(***************************************************************************)
(* A client call that falls into a running callback (the script of Spec)   *)
(***************************************************************************)
\* the entries of stream k's list the iterator of the running loop has still to yield
Pending(sounds, pos) == SubSeq(sounds, pos, Len(sounds))

\* the callback of stream k is in the pass of its loop that yielded s, listed once
Processing(k, s) ==
    /\ cbPos[k] >= 2
    /\ cbPos[k] - 1 <= Len(objs[k].sounds)
    /\ objs[k].sounds[cbPos[k] - 1] = s
    /\ Cardinality({i \in 1..Len(objs[k].sounds) : objs[k].sounds[i] = s}) = 1

\* C16 (as claimed): when pause() or stop() of the client's thread falls into the
\* pass of the callback's loop on the same sound, the sound is out of the list
\* afterwards, no other sound leaves the list, and the loop still has every other
\* sound before it that it had before.
C16_RemoveDuringCallback ==
    [][\A s \in Sounds : \A k \in 1..Len(objs) :
          (Processing(k, s) /\ (Pause(s) \/ Stop(s)))
          => /\ ~Holds(objs'[k].sounds, s)
             /\ \A q \in Sounds \ {s} : Holds(objs[k].sounds, q) => Holds(objs'[k].sounds, q)
             /\ Pending(objs'[k].sounds, cbPos'[k]) = Pending(objs[k].sounds, cbPos[k])]_vars

(***************************************************************************)
(* One script object played again and again: the calls of Spec on the      *)
(* first sound of the script, with play() called up to MaxPlays times in a *)
(* row.                                                                    *)
(***************************************************************************)
Solo == {s \in Sounds : \A q \in Sounds : s <= q}

NextSolo ==
    \/ \E s \in Solo, sr \in PlaySampleRates, bs \in PlayBlockSizes, l \in LoopCounts :
          Construct(s, Tone, sr, bs, l)
    \/ \E s \in Solo : PlayUpTo(s, MaxPlays)
    \/ \E s \in Solo : Pause(s)
    \/ \E s \in Solo : Stop(s)
    \/ \E k \in 1..Len(objs) : CallbackEnter(k)
    \/ \E k \in 1..Len(objs) : CallbackNext(k)
    \/ \E k \in 1..Len(objs) : CallbackReturn(k)

SpecSolo == Init /\ [][NextSolo]_vars

\* C21 (as claimed): when a sound with loops = 0 meets the end of its stream, its
\* count of finished loops goes up by one, it becomes Finished and it is no longer
\* in the list of its stream, so that no later callback pulls from it.
C21_NoLoopFinishes ==
    [][\A s \in Sounds :
          (snds[s].loops = 0 /\ MetEOS(s))
          => /\ snds'[s].loopsFinished = snds[s].loopsFinished + 1
             /\ snds'[s].status = FINISHED
             /\ ~ActiveAfter(s)]_vars

\* the frames of a block that are not silent
NonSilent(dat) == Cardinality({i \in 1..Len(dat) : dat[i] # 0})

\* the frames of the duration that lie in the block that starts at the cursor
FramesDue(snd) ==
    LET left == ((snd.secs - snd.t) * snd.sampleRate) \div TicksPerSec
    IN  IF snd.secs <= snd.t THEN 0 ELSE Min(snd.blockSize, left)

\* the pull nb of the tone snd delivers the frames due and nothing else that
\* sounds, and tells the end of the stream no earlier than the pull that delivers
\* the last frame due and no later than the pull after it
TonePullExact(snd, nb, s) ==
    LET ended == nb.W.snds[s].loopsFinished > snd.loopsFinished
    IN  /\ NonSilent(nb.dat) = FramesDue(snd)
        /\ ended => snd.t + BlockTicks(snd) >= snd.secs
        /\ snd.t >= snd.secs => ended

\* C22 (as claimed): a tone with loops = 0 delivers exactly duration x sampleRate
\* frames that are not silent, the frames past the duration being silent or absent,
\* and tells the end of the stream on the pull that follows the last of them.
C22_ToneFramesExact ==
    \A s \in Sounds :
        (snds[s].made /\ snds[s].sourceType = "freq" /\ snds[s].loops = 0
            /\ snds[s].status = PLAYING /\ snds[s].loopsFinished = 0)
        => TonePullExact(snds[s], _nextBlock(World(snds, objs), s), s)

(***************************************************************************)
(* The life of a registry entry                                            *)
(***************************************************************************)
\* the key under which a stream with these fields is stored
KeyOf(stream) ==
    Format(stream.sampleRate) \o <<"_">> \o Format(stream.channels) \o <<"_">>
        \o Format(stream.blockSize)

\* the three fields of a stream that its key names
KeyFields(stream) == <<stream.sampleRate, stream.channels, stream.blockSize>>

\* C24: an entry of the registry is never pruned or replaced: a stored key maps to
\* the same stream instance from then on, and the sample rate, channel count and
\* block size of that stream never change and are the fields of its key.
C24_EntriesPermanent ==
    [][/\ \A i \in 1..Len(streams) :
             /\ i <= Len(streams')
             /\ streams'[i] = streams[i]
             /\ KeyFields(objs'[streams[i].stream]) = KeyFields(objs[streams[i].stream])
       /\ \A i \in 1..Len(streams') :
             streams'[i].label = KeyOf(objs'[streams'[i].stream])]_vars

\* C24 witness: two keys are stored and a sound has just been refitted to the
\* stream of one of them by a setSound that went through getSimilar
C24_Witness ==
    /\ Len(streams) = 2
    /\ lastCall.op = "setSound"
    /\ lastCall.raised = ""
    /\ \E i \in 1..Len(streams) :
          /\ streams[i].label = snds[lastCall.snd].streamLabel
          /\ streams[i].label = KeyOf(StreamAt(i))

(***************************************************************************)
(* A script that draws on a stereo window                                  *)
(***************************************************************************)
soundVars == <<platform, streams, objs, snds, cbPos, lastCall, returned, mark, out, pc>>

\* win = SpannedWindow(...) and the like: _afterSetupGL sets up the framebuffers
OpenWindow(cls) ==
    /\ gl.win = "none"
    /\ gl' = [_setupStereoFBO([gl EXCEPT !.win = cls]) EXCEPT !.last = <<"open">>]
    /\ UNCHANGED soundVars

\* win.setBuffer(buffer, clear)
SetBuffer(buffer, clear) ==
    /\ gl.win # "none"
    /\ gl.frame <= MaxFrames
    /\ gl' = [setBuffer(gl, buffer, clear) EXCEPT !.last = <<"setBuffer", buffer, clear>>]
    /\ UNCHANGED soundVars

\* stim.draw()
Draw ==
    /\ gl.win # "none"
    /\ gl.frame <= MaxFrames
    /\ gl' = [draw(gl) EXCEPT !.last = <<"draw">>]
    /\ UNCHANGED soundVars

\* win.flip(clearBuffer)
Flip(clearBuffer, flipThisFrame) ==
    /\ gl.win # "none"
    /\ gl.frame <= MaxFrames
    /\ gl' = [flip(gl, clearBuffer, flipThisFrame) EXCEPT !.last = <<"flip", clearBuffer>>]
    /\ UNCHANGED soundVars

NextStereo ==
    \/ \E cls \in WindowClasses : OpenWindow(cls)
    \/ \E b \in Buffers, clear \in BOOLEAN : SetBuffer(b, clear)
    \/ Draw
    \/ \E c \in BOOLEAN, f \in BOOLEAN : Flip(c, f)

SpecStereo == Init /\ [][NextStereo]_vars

\* the framebuffer that setBuffer(buffer) makes the target of the draw calls
DrawTarget(buffer) == setBuffer(gl, buffer, FALSE).bound

\* C25 (as claimed): after flip(clearBuffer=True) the framebuffers that
\* setBuffer('left') and setBuffer('right') bind for drawing are cleared, so that
\* nothing drawn for a frame is left in them for the next frame.
C25_EyeBuffersCleared ==
    gl.last = <<"flip", TRUE>>
    => /\ gl.pix[DrawTarget("left")] = {}
       /\ gl.pix[DrawTarget("right")] = {}

\* how many entries of the sequence q are s
Count(q, s) == Cardinality({i \in 1..Len(q) : q[i] = s})

\* C26 (as claimed): in one callback invocation every sound that is in the list when
\* the invocation starts is pulled exactly once, also when sounds meet the end of
\* their stream and leave the list in that invocation.
C26_EachPulledOnce ==
    (out.k # 0 /\ out.raised = "") =>
        \A s \in Sounds : Count(out.before, s) = 1 => Count(out.pulled, s) = 1

(***************************************************************************)
(* One sound of any kind, a file with or without the keyword arguments     *)
(* that choose the part of the file and how it is read, played under the   *)
(* callback run as a whole.  Times are in ticks, on frame borders.         *)
(***************************************************************************)
FileStereo == {0 - 1, 1}
FilePreBuffers == {0 - 1, 0}
FileStarts == {0, 2}
FileStops == {0 - TicksPerSec, 10, 12}

\* SoundDeviceSound(value, stereo=..., preBuffer=..., startTime=..., stopTime=...)
ConstructFile(s, value, blockSize, loops, stereo, preBuffer, startTime, stopTime) ==
    \E sr \in PlaySampleRates :
        ConstructWith(s, value,
                      WithFileArgs(InitFields(sr, blockSize, loops, HalfSec),
                                   stereo, preBuffer, startTime, stopTime))

NextFile ==
    \/ \E s \in 1..RegSounds, v \in MixValues, bs \in PlayBlockSizes, l \in LoopCounts,
          st \in FileStereo, pb \in FilePreBuffers, a \in FileStarts, e \in FileStops :
          ConstructFile(s, v, bs, l, st, pb, a, e)
    \/ \E s \in 1..RegSounds : Play(s)
    \/ \E s \in 1..RegSounds : Pause(s)
    \/ \E s \in 1..RegSounds : Stop(s)
    \/ \E k \in 1..Len(objs), v \in Garbage : Callback(k, v)

SpecFile == Init /\ [][NextFile]_vars

\* _nextBlock calls on one sound after another, as the callbacks of an
\* uninterrupted play make them
MaxCalls == FileFrames + 2

\* the frames the calls from the world W on hand over up to and with the first short
\* block, whether a short block came, and the exception that ended them, if any
RECURSIVE PlayOut(_, _, _)
PlayOutFrom(s, calls, nb) ==
    IF nb.raised # ""
    THEN [frames |-> 0, short |-> FALSE, raised |-> nb.raised]
    ELSE IF nb.len < nb.W.snds[s].blockSize
    THEN [frames |-> nb.len, short |-> TRUE, raised |-> ""]
    ELSE IF calls = 0
    THEN [frames |-> nb.len, short |-> FALSE, raised |-> ""]
    ELSE [PlayOut(nb.W, s, calls - 1) EXCEPT !.frames = @ + nb.len]

PlayOut(W, s, calls) == PlayOutFrom(s, calls, _nextBlock(W, s))

\* the sound is a file of which startTime and stopTime pick an inner part
PartOfFile(snd) ==
    /\ snd.made
    /\ snd.sourceType = "file"
    /\ 0 < snd.startTime
    /\ snd.startTime < snd.stopTime
    /\ snd.stopTime <= FileTicks(snd)

\* C23 (as claimed): a file sound constructed with startTime s and stopTime e,
\* 0 < s < e inside the file, hands over exactly (e - s) x sampleRate frames over
\* all its pulls and then tells the end of the stream with a short block, whether
\* the file is read whole at construction or streamed.
C23_PartOfFileFrames ==
    \A s \in Sounds :
        (PartOfFile(snds[s]) /\ snds[s].status = NOT_STARTED)
        => PlayOut(World(snds, objs), s, MaxCalls)
               = [frames |-> FrameAt(snds[s], snds[s].stopTime - snds[s].startTime),
                  short |-> TRUE, raised |-> ""]

\* the pass b of the loop of stream k on s: a short block takes s out of the list and
\* calls its _EOS once; a full block leaves s in the list and its _EOS uncalled
ShortBlockRule(k, s, b) ==
    IF Len(b.dat) < objs[k].blockSize
    THEN /\ ~Holds(b.W.objs[k].sounds, s)
         /\ b.W.snds[s].loopsFinished = snds[s].loopsFinished + 1
    ELSE /\ Holds(b.W.objs[k].sounds, s)
         /\ b.W.snds[s].loopsFinished = snds[s].loopsFinished

\* the pass of the loop of stream k on s ends without an exception
PassReturns(k, s, b) == b.pulled /\ b.raised = ""

\* C27 (as claimed): in a callback a sound whose pulled block has fewer frames than
\* asked for is taken out of the list and its _EOS is called exactly once; a sound
\* that returned a full block stays in the list and its _EOS is not called.
C27_ShortBlockEndsSound ==
    \A k \in 1..Len(objs) : \A s \in Sounds :
        (/\ Count(objs[k].sounds, s) = 1
         /\ PassReturns(k, s, LoopBody(World(snds, objs), Filled(objs[k], 0), k, s)))
        => ShortBlockRule(k, s, LoopBody(World(snds, objs), Filled(objs[k], 0), k, s))

\* the time that many frames of the sound take, in ticks
TicksOf(snd, frames) == (frames * TicksPerSec) \div snd.sampleRate

\* the call nb of _nextBlock on the sound snd returned no more than blockSize frames
\* and moved the cursor on by the frames it returned
BlockWithinSize(snd, nb, s) ==
    /\ nb.len >= 0
    /\ nb.len <= snd.blockSize
    /\ nb.W.snds[s].t = snd.t + TicksOf(snd, nb.len)

\* C28 (as claimed): every _nextBlock call returns at most blockSize frames, never a
\* negative or larger count, and moves the cursor on by exactly the frames it
\* returned, for every kind of sound and every cursor, the last short block included.
C28_BlockAdvancesCursor ==
    \A k \in 1..Len(objs) : \A s \in Sounds :
        (Holds(objs[k].sounds, s) /\ _nextBlock(World(snds, objs), s).raised = "")
        => BlockWithinSize(snds[s], _nextBlock(World(snds, objs), s), s)

\* the frames of its material the sound has still to hand over at its cursor: of
\* the duration of a tone, of the file up to stopTime when one is given, of the array
MaterialLeft(snd) ==
    IF snd.sourceType = "freq"
    THEN (IF snd.secs <= snd.t THEN 0 ELSE FrameAt(snd, snd.secs - snd.t))
    ELSE IF Streaming(snd)
    THEN (IF snd.stopTime > 0 /\ framesLeft(snd) < FileFrames - snd.filePos
          THEN (IF framesLeft(snd) < 0 THEN 0 ELSE framesLeft(snd))
          ELSE FileFrames - snd.filePos)
    ELSE (IF snd.nSamples <= FrameAt(snd, snd.t) THEN 0
          ELSE snd.nSamples - FrameAt(snd, snd.t))

\* the call nb of _nextBlock on the sound snd is short exactly when the material
\* runs out in it
ShortOnlyAtEnd(snd, nb) ==
    IF MaterialLeft(snd) >= snd.blockSize
    THEN nb.len = snd.blockSize
    ELSE nb.len < snd.blockSize

\* C29 (as claimed): for every kind of sound, over one playthrough exactly one
\* _nextBlock call returns fewer frames than asked for, the call at the end of the
\* material, and every call before it returns exactly blockSize frames.
C29_OneShortBlock ==
    \A k \in 1..Len(objs) : \A s \in Sounds :
        (Holds(objs[k].sounds, s) /\ _nextBlock(World(snds, objs), s).raised = "")
        => ShortOnlyAtEnd(snds[s], _nextBlock(World(snds, objs), s))

\* this step took s through stop(): the client called it, or a pull met the end of
\* the stream with the loops used up
ThroughStop(s) ==
    \/ Stop(s)
    \/ /\ snds'[s].loopsFinished > snds[s].loopsFinished
       /\ LoopsExhausted(snds'[s])

PlayWithin(s) ==
    /\ snds[s].made
    /\ snds[s].t < MaxT
    /\ snds[s].loopsFinished < MaxEOS
    /\ PlayUpTo(s, MaxActive)

\* the next step of the driver's thread inside the callback of stream k
CallbackRuns(k) ==
    /\ k <= Len(objs)
    /\ (CallbackPass(k) \/ CallbackReturn(k))

NextLive ==
    \/ \E s \in Solo, sr \in PlaySampleRates, bs \in PlayBlockSizes, l \in LoopCounts :
          Construct(s, Tone, sr, bs, l)
    \/ \E s \in Solo : PlayWithin(s)
    \/ \E s \in Solo : Pause(s)
    \/ \E s \in Solo : Stop(s)
    \/ \E k \in 1..Len(objs) : CallbackEnter(k)
    \/ \E k \in 1..Len(objs) : CallbackPass(k)
    \/ \E k \in 1..Len(objs) : CallbackReturn(k)

SpecLive ==
    /\ Init
    /\ [][NextLive]_vars
    /\ \A k \in 1..MaxStreams : WF_vars(CallbackRuns(k))

\* a callback that has been entered can take its next step, and every call of the
\* client on a sound it has made can be taken, whatever the other thread is doing
NeitherSideWaits ==
    /\ \A k \in 1..Len(objs) : cbPos[k] >= 1 => ENABLED CallbackRuns(k)
    /\ \A s \in Sounds : snds[s].made =>
          /\ ENABLED PlayUpTo(s, Len(objs[StreamOf(World(snds, objs), s)].sounds) + 1)
          /\ ENABLED Pause(s)
          /\ ENABLED Stop(s)

C32_AtMostOnce ==
    \A s \in Sounds : snds[s].made =>
        /\ Count(objs[StreamOf(World(snds, objs), s)].sounds, s) <= 1
        /\ mark[s].kind # "none" => ~Holds(objs[StreamOf(World(snds, objs), s)].sounds, s)

\* no callback is between its entry and its return (a client call is one step)
Quiet == \A k \in 1..Len(objs) : cbPos[k] = 0

\* C33 (as claimed): whenever no client call and no callback is in progress, every
\* sound in the list of a stream is Playing: a sound that is NotStarted, Paused,
\* Stopped or Finished is in no list.
C33_ListedArePlaying ==
    Quiet => \A k \in 1..Len(objs) : \A i \in 1..Len(objs[k].sounds) :
                 snds[objs[k].sounds[i]].status = PLAYING

\* C34 (as claimed): when a sound becomes Finished through the end of its stream, its
\* cursor is 0 once the pull that ended it has returned, for tones as for the other
\* sources, so that the next play() starts from the beginning.
C34_FinishedAtStart ==
    [][\A s \in Sounds :
          (snds[s].status # FINISHED /\ snds'[s].status = FINISHED)
          => snds'[s].t = 0]_vars

\* C35 (as claimed): a playback that play() starts from NotStarted, Stopped or
\* Finished has a fresh loop budget: the count of finished loops is 0 when it starts.
C35_FreshLoopBudget ==
    [][\A s \in Sounds :
          (Play(s) /\ snds[s].status \in {NOT_STARTED, STOPPED, FINISHED})
          => snds'[s].loopsFinished = 0]_vars

(***************************************************************************)
(* Replaying a part of a file                                              *)
(***************************************************************************)
\* the sound as its constructor left it: _setSndFromFile run again on its fields
AsConstructed(snd) == _setSndFromFile(snd, snd.sampleRate, snd.channels)

\* the frame of the file the next pull starts from: the place of the open file, or
\* the row of the array, whose first row is the frame at startTime
NextFrame(snd) ==
    IF Streaming(snd) THEN snd.filePos
    ELSE FrameAt(snd, snd.startTime) + FrameAt(snd, snd.t)

\* C36 (as claimed): for a file sound with startTime > 0, stop() followed by play()
\* replays the part of the file from startTime to stopTime that the first playback
\* played, whether the file is read whole at construction or streamed.
C36_ReplaySamePart ==
    \A s \in Sounds :
        (PartOfFile(snds[s]) /\ snds[s].status = STOPPED
            /\ ~Holds(objs[StreamOf(World(snds, objs), s)].sounds, s))
        => /\ NextFrame(snds[s]) = NextFrame(AsConstructed(snds[s]))
           /\ PlayOut(World(snds, objs), s, MaxCalls)
                 = PlayOut(World([snds EXCEPT ![s] = AsConstructed(snds[s])], objs),
                           s, MaxCalls)

(***************************************************************************)
(* pause() and stop() against the callback's handling of a short block,    *)
(* statement by statement.  The client's thread and the driver's thread    *)
(* share self.sounds and the fields of the sound with no lock, so a        *)
(* statement of one may fall between any two statements of the other.  One *)
(* file sound is played, once in the list.  A pull is one step; when its   *)
(* block is short, lines 142-143 and the lines of _EOS and of the stop()   *)
(* it calls are one step each, and so are the lines of the client's        *)
(* pause() and stop().  pc.cl and pc.cb name the line each thread runs     *)
(* next.  pc.before is the state when the short block had been pulled,     *)
(* pc.op the client call that began while the handling was under way,      *)
(* pc.later the thread whose call returned after the other's had.          *)
(***************************************************************************)
RaceFiles == {v \in MixValues : v.kind = "file"}

\* a stopTime is given, so that the first short block is the end of the material
RaceStops == {e \in FileStops : e > 0}

\* the frame of the steps below: what none of them touches
RaceKeeps == UNCHANGED <<gl, platform, streams, lastCall, returned, mark, out>>

\* the callback of the stream of s is handling a short block of s
Handling(s) == pc.cb # "idle" /\ pc.s = s

\* one call of the client at most falls into one handling
MayBegin(s) == pc.cl = "idle" /\ (Handling(s) => pc.op = "none")

\* the client begins pause() or stop() on s: it races when the handling is under way
Begun(op, s, next) ==
    [pc EXCEPT !.cl = next, !.cs = s,
               !.op = IF Handling(s) THEN op ELSE "none",
               !.before = IF Handling(s) THEN @ ELSE <<>>]

\* s.play() with neither thread inside a call, the sound not in the list
RacePlay(s) ==
    /\ snds[s].made
    /\ pc.cl = "idle"
    /\ pc.cb = "idle"
    /\ snds[s].t < MaxT
    /\ snds[s].loopsFinished < MaxEOS
    /\ ~Holds(objs[StreamOf(World(snds, objs), s)].sounds, s)
    /\ \E W \in {play(World(snds, objs), s)} :
        /\ snds' = W.snds
        /\ objs' = W.objs
    /\ pc' = NoRace
    /\ UNCHANGED cbPos
    /\ RaceKeeps

\* pause(), line 350: self.status = PAUSED
PauseStatus(s) ==
    /\ snds[s].made
    /\ MayBegin(s)
    /\ snds' = [snds EXCEPT ![s].status = PAUSED]
    /\ pc' = Begun("pause", s, "351")
    /\ UNCHANGED <<objs, cbPos>>
    /\ RaceKeeps

\* pause(), line 351: streams[self.streamLabel].remove(self)
PauseRemove(s) ==
    /\ pc.cl = "351"
    /\ pc.cs = s
    /\ \E W \in {remove(World(snds, objs), StreamOf(World(snds, objs), s), s)} :
        /\ snds' = W.snds
        /\ objs' = W.objs
    /\ pc' = [pc EXCEPT !.cl = "idle", !.later = IF pc.cb = "idle" THEN "client" ELSE @]
    /\ UNCHANGED cbPos
    /\ RaceKeeps

\* stop(), line 356: streams[self.streamLabel].remove(self)
StopRemove(s) ==
    /\ snds[s].made
    /\ MayBegin(s)
    /\ \E W \in {remove(World(snds, objs), StreamOf(World(snds, objs), s), s)} :
        /\ snds' = W.snds
        /\ objs' = W.objs
    /\ pc' = Begun("stop", s, "357")
    /\ UNCHANGED cbPos
    /\ RaceKeeps

\* stop(), line 357: self.seek(0)
StopSeek(s) ==
    /\ pc.cl = "357"
    /\ pc.cs = s
    /\ snds' = [snds EXCEPT ![s] = seek(@, 0)]
    /\ pc' = [pc EXCEPT !.cl = "358"]
    /\ UNCHANGED <<objs, cbPos>>
    /\ RaceKeeps

\* stop(), line 358: self.status = STOPPED
StopStatus(s) ==
    /\ pc.cl = "358"
    /\ pc.cs = s
    /\ snds' = [snds EXCEPT ![s].status = STOPPED]
    /\ pc' = [pc EXCEPT !.cl = "idle", !.later = IF pc.cb = "idle" THEN "client" ELSE @]
    /\ UNCHANGED <<objs, cbPos>>
    /\ RaceKeeps

\* lines 135-141 of a pass for thisSound: the block is pulled and added; an
\* exception ends the callback, a short block leads to line 142, a full block to
\* the next entry of the list
Pulled135(k, thisSound, nb, ad) ==
    /\ snds' = nb.W.snds
    /\ objs' = nb.W.objs
    /\ IF nb.raised # "" \/ ad.raised # ""
       THEN /\ cbPos' = [cbPos EXCEPT ![k] = 0]
            /\ pc' = NoRace
       ELSE IF nb.len < Len(ad.buf)
       THEN /\ cbPos' = cbPos
            /\ pc' = [NoRace EXCEPT !.cb = "142", !.s = thisSound, !.before = nb.W]
       ELSE /\ cbPos' = [cbPos EXCEPT ![k] = @ + 1]
            /\ pc' = NoRace

CallbackPull(k) ==
    /\ pc.cl = "idle"
    /\ pc.cb = "idle"
    /\ cbPos[k] >= 1
    /\ cbPos[k] <= Len(objs[k].sounds)
    /\ snds[objs[k].sounds[cbPos[k]]].t < MaxT
    /\ snds[objs[k].sounds[cbPos[k]]].loopsFinished < MaxEOS
    /\ \E nb \in {_nextBlock(World(snds, objs), objs[k].sounds[cbPos[k]])} :
          \E ad \in {Added(Filled(objs[k], 0), nb, objs[k].channels)} :
              Pulled135(k, objs[k].sounds[cbPos[k]], nb, ad)
    /\ RaceKeeps

\* line 142: self.sounds.remove(thisSound), a ValueError when it is not in the list
CallbackRemove(k) ==
    /\ pc.cb = "142"
    /\ StreamOf(World(snds, objs), pc.s) = k
    /\ IF Holds(objs[k].sounds, pc.s)
       THEN /\ objs' = [objs EXCEPT ![k].sounds = RemoveFirst(@, pc.s)]
            /\ pc' = [pc EXCEPT !.cb = "406"]
            /\ cbPos' = cbPos
       ELSE /\ objs' = objs
            /\ pc' = [pc EXCEPT !.cb = "idle", !.raised = ValueError,
                                !.later = IF pc.cl = "idle" THEN "callback" ELSE @]
            /\ cbPos' = [cbPos EXCEPT ![k] = 0]
    /\ UNCHANGED snds
    /\ RaceKeeps

\* _EOS, lines 406-410: the count goes up and the loop budget is tested
EosCount(s) ==
    /\ pc.cb = "406"
    /\ pc.s = s
    /\ snds' = [snds EXCEPT ![s].loopsFinished = @ + 1]
    /\ pc' = [pc EXCEPT !.eos = @ + 1,
                        !.cb = IF snds'[s].loops = 0
                                  \/ (snds'[s].loops > 0
                                      /\ snds'[s].loopsFinished >= snds'[s].loops)
                               THEN "stop356" ELSE "412"]
    /\ UNCHANGED <<objs, cbPos>>
    /\ RaceKeeps

\* the stop() that _EOS calls, line 356
EosStopRemove(s) ==
    /\ pc.cb = "stop356"
    /\ pc.s = s
    /\ \E W \in {remove(World(snds, objs), StreamOf(World(snds, objs), s), s)} :
        /\ snds' = W.snds
        /\ objs' = W.objs
    /\ pc' = [pc EXCEPT !.cb = "stop357"]
    /\ UNCHANGED cbPos
    /\ RaceKeeps

\* the stop() that _EOS calls, line 357
EosStopSeek(s) ==
    /\ pc.cb = "stop357"
    /\ pc.s = s
    /\ snds' = [snds EXCEPT ![s] = seek(@, 0)]
    /\ pc' = [pc EXCEPT !.cb = "stop358"]
    /\ UNCHANGED <<objs, cbPos>>
    /\ RaceKeeps

\* the stop() that _EOS calls, line 358
EosStopStatus(s) ==
    /\ pc.cb = "stop358"
    /\ pc.s = s
    /\ snds' = [snds EXCEPT ![s].status = STOPPED]
    /\ pc' = [pc EXCEPT !.cb = "412"]
    /\ UNCHANGED <<objs, cbPos>>
    /\ RaceKeeps

\* _EOS, line 412: streams[self.streamLabel].remove(self)
EosRemove(s) ==
    /\ pc.cb = "412"
    /\ pc.s = s
    /\ \E W \in {remove(World(snds, objs), StreamOf(World(snds, objs), s), s)} :
        /\ snds' = W.snds
        /\ objs' = W.objs
    /\ pc' = [pc EXCEPT !.cb = "413"]
    /\ UNCHANGED cbPos
    /\ RaceKeeps

\* _EOS, line 413: self.status = FINISHED; the loop goes on to its next entry
EosStatus(s) ==
    /\ pc.cb = "413"
    /\ pc.s = s
    /\ snds' = [snds EXCEPT ![s].status = FINISHED]
    /\ pc' = [pc EXCEPT !.cb = "idle", !.later = IF pc.cl = "idle" THEN "callback" ELSE @]
    /\ cbPos' = [cbPos EXCEPT ![StreamOf(World(snds, objs), s)] = @ + 1]
    /\ UNCHANGED objs
    /\ RaceKeeps

\* the callback returns when its loop is past the end of the list
RaceReturn(k) ==
    /\ pc.cb = "idle"
    /\ CallbackReturn(k)

NextRace ==
    \/ \E s \in Solo, v \in RaceFiles, bs \in PlayBlockSizes, l \in LoopCounts,
          pb \in FilePreBuffers, a \in FileStarts, e \in RaceStops :
          ConstructFile(s, v, bs, l, 1, pb, a, e)
    \/ \E s \in Solo : RacePlay(s)
    \/ \E s \in Solo : PauseStatus(s)
    \/ \E s \in Solo : PauseRemove(s)
    \/ \E s \in Solo : StopRemove(s)
    \/ \E s \in Solo : StopSeek(s)
    \/ \E s \in Solo : StopStatus(s)
    \/ \E k \in 1..Len(objs) : pc.cb = "idle" /\ CallbackEnter(k)
    \/ \E k \in 1..Len(objs) : CallbackPull(k)
    \/ \E k \in 1..Len(objs) : CallbackRemove(k)
    \/ \E s \in Solo : EosCount(s)
    \/ \E s \in Solo : EosStopRemove(s)
    \/ \E s \in Solo : EosStopSeek(s)
    \/ \E s \in Solo : EosStopStatus(s)
    \/ \E s \in Solo : EosRemove(s)
    \/ \E s \in Solo : EosStatus(s)
    \/ \E k \in 1..Len(objs) : RaceReturn(k)

SpecRace == Init /\ [][NextRace]_vars

\* lines 141-143 run as a whole on a short block of s
HandledWhole(W, s) ==
    IF Holds(W.objs[StreamOf(W, s)].sounds, s)
    THEN _EOS(remove(W, StreamOf(W, s), s), s)
    ELSE W

\* the client's call run as a whole
CalledWhole(W, op, s) == IF op = "pause" THEN pause(W, s) ELSE stop(W, s)

\* status, cursor and membership of s
Outcome(W, s) ==
    <<W.snds[s].status, W.snds[s].t, Holds(W.objs[StreamOf(W, s)].sounds, s)>>

\* a pause() or stop() that began during the handling of a short block of the same
\* sound has returned, and so has the handling
RaceOver == pc.op # "none" /\ pc.cl = "idle" /\ pc.cb = "idle"

\* C37 (as claimed): under every interleaving of the client's pause() or stop() with
\* the callback's handling of the end of the stream of the same sound, the status,
\* the cursor and the membership of the sound in the list are, once both have
\* returned, those of one of the two serial orders, and _EOS has run at most once.
C37_RaceIsSerial ==
    RaceOver =>
        /\ Outcome(World(snds, objs), pc.s)
              \in {Outcome(CalledWhole(HandledWhole(pc.before, pc.s), pc.op, pc.s), pc.s),
                   Outcome(HandledWhole(CalledWhole(pc.before, pc.op, pc.s), pc.s), pc.s)}
        /\ ((pc.later = "client" /\ pc.op = "pause")
               => snds[pc.s].status = PAUSED)
        /\ ~Holds(objs[StreamOf(World(snds, objs), pc.s)].sounds, pc.s)
        /\ pc.eos <= 1

====
